---- MODULE Spec2Model ----
(***************************************************************************)
(* Model of src/server.js, the bounded ("ultra-optimized") brainrot        *)
(* backend (lines 178-498): two in-memory Maps, brainrots and              *)
(* activePlayers, the two cleanup functions, the HTTP handlers and the     *)
(* 2000 ms sweep timer.                                                    *)
(*                                                                         *)
(* A JavaScript Map is a sequence of entries in insertion order, each      *)
(* carrying its key.  A JavaScript string is a sequence of one-character   *)
(* strings.  A JSON value of a request body is a record tagged with its    *)
(* typeof.  Every handler runs to completion (Node's single thread), so    *)
(* each handler is one action, evaluated at one reading of Date.now().     *)
(*                                                                         *)
(* The capacities are scaled down (50 -> 2, 100 -> 2, 20 -> 1, 50 -> 1)    *)
(* so that overflow and truncation happen with a handful of identities;    *)
(* the time constants keep their values in milliseconds.                   *)
(***************************************************************************)
EXTENDS Integers, Sequences, FiniteSets, TLC

VARIABLES brainrots, activePlayers, now, nextTick, res, swept, evicted

vars == <<brainrots, activePlayers, now, nextTick, res, swept, evicted>>

----------------------------------------------------------------------------
(* Limits and timeouts                                                     *)

\* const MAX_BRAINROTS = 50, scaled
MAX_BRAINROTS == 2

\* const MAX_PLAYERS = 100, scaled
MAX_PLAYERS == 2

\* mutant: a lifetime of 60 seconds
BRAINROT_LIVETIME_MS_sixty == 60 * 1000

BRAINROT_LIVETIME_MS == 30 * 1000

PLAYER_TIMEOUT_MS == 30 * 1000

\* const MAX_RESPONSE_BRAINROTS = 20, scaled
MAX_RESPONSE_BRAINROTS == 1

\* allPlayers.slice(0, 50), scaled
MAX_RESPONSE_PLAYERS == 1

\* activeList.length < 5, scaled
MAX_DEBUG_ACTIVE == 1

\* substring(0, 8)
DEBUG_ID_CHARS == 8

\* setInterval(..., 2000)
SWEEP_INTERVAL_MS == 2000

\* the clock stops here
MaxTime == 60000

\* the clock of the punctual-timer specification stops here
MaxSweepTime == 34000

\* no request arrives after this time in QuietSpec
QuietAfter == 2000

----------------------------------------------------------------------------
(* JavaScript values and strings                                           *)

Str(s) == [t |-> "string", v |-> s]

Num(n) == [t |-> "number", v |-> n]

Undefined == [t |-> "undefined", v |-> 0]

\* ToBoolean: undefined, "" and 0 are falsy
Truthy(x) ==
  CASE x.t = "undefined" -> FALSE
    [] x.t = "string" -> x.v # << >>
    [] x.t = "number" -> x.v # 0

IsSpace(c) == c = " "

RECURSIVE TrimStart(_)
TrimStart(s) ==
  IF s = << >> THEN << >>
  ELSE IF IsSpace(Head(s)) THEN TrimStart(Tail(s)) ELSE s

RECURSIVE TrimEnd(_)
TrimEnd(s) ==
  IF s = << >> THEN << >>
  ELSE IF IsSpace(s[Len(s)]) THEN TrimEnd(SubSeq(s, 1, Len(s) - 1)) ELSE s

\* String.prototype.trim
trim(s) == TrimEnd(TrimStart(s))

LowerChar(c) ==
  CASE c = "A" -> "a"
    [] c = "B" -> "b"
    [] c = "C" -> "c"
    [] c = "P" -> "p"
    [] c = "Q" -> "q"
    [] c = "S" -> "s"
    [] c = "J" -> "j"
    [] OTHER -> c

\* String.prototype.toLowerCase
toLowerCase(s) == [i \in 1..Len(s) |-> LowerChar(s[i])]

\* template-literal conversion of a value to a string
StringOf(x) ==
  CASE x.t = "string" -> x.v
    [] x.t = "number" -> <<"5">>
    [] x.t = "undefined" -> <<"u", "n", "d", "e", "f", "i", "n", "e", "d">>

\* typeof x === "string" ? x.trim() : ""
TrimmedOrEmpty(x) == IF x.t = "string" THEN trim(x.v) ELSE << >>

----------------------------------------------------------------------------
(* Map operations                                                          *)

MapKeys(m) == {m[i].key : i \in 1..Len(m)}

MapHas(m, k) == k \in MapKeys(m)

MapIndex(m, k) == CHOOSE i \in 1..Len(m) : m[i].key = k

MapGet(m, k) == m[MapIndex(m, k)]

\* Map.prototype.set: an existing key keeps its place, a new key goes last
MapSet(m, e) ==
  IF MapHas(m, e.key)
    THEN [m EXCEPT ![MapIndex(m, e.key)] = e]
    ELSE Append(m, e)

MapDeleteKeys(m, ks) ==
  LET Keep(e) == e.key \notin ks IN SelectSeq(m, Keep)

\* Map.prototype.delete
MapDelete(m, k) == MapDeleteKeys(m, {k})

Range(s) == {s[i] : i \in 1..Len(s)}

----------------------------------------------------------------------------
(* Array.prototype.sort is stable: equal elements keep their order         *)

RECURSIVE InsertNewestFirst(_, _)
InsertNewestFirst(sorted, e) ==
  IF sorted = << >> THEN <<e>>
  ELSE IF Head(sorted).lastSeen >= e.lastSeen
    THEN <<Head(sorted)>> \o InsertNewestFirst(Tail(sorted), e)
    ELSE <<e>> \o sorted

RECURSIVE SortNewestFirst(_)
SortNewestFirst(s) ==
  IF s = << >> THEN << >>
  ELSE InsertNewestFirst(SortNewestFirst(SubSeq(s, 1, Len(s) - 1)), s[Len(s)])

RECURSIVE InsertOldestFirst(_, _)
InsertOldestFirst(sorted, e) ==
  IF sorted = << >> THEN <<e>>
  ELSE IF Head(sorted).lastSeen <= e.lastSeen
    THEN <<Head(sorted)>> \o InsertOldestFirst(Tail(sorted), e)
    ELSE <<e>> \o sorted

RECURSIVE SortOldestFirst(_)
SortOldestFirst(s) ==
  IF s = << >> THEN << >>
  ELSE InsertOldestFirst(SortOldestFirst(SubSeq(s, 1, Len(s) - 1)), s[Len(s)])

\* Array.prototype.slice(0, n)
Slice0(s, n) == SubSeq(s, 1, IF Len(s) < n THEN Len(s) ELSE n)

----------------------------------------------------------------------------
(* The two cleanup functions                                               *)

\* mutant: the cutoff is the current time, the lifetime is not subtracted
BrainrotExpired_noLifetime(br, nowTime) == br.lastSeen < nowTime

\* br.lastSeen < livetimeCutoff
BrainrotExpired(br, nowTime) == br.lastSeen < nowTime - BRAINROT_LIVETIME_MS

\* first loop of cleanupOldBrainrots: delete all expired brainrots
ExpireBrainrots(m, nowTime) ==
  LET Keep(br) == ~BrainrotExpired(br, nowTime) IN SelectSeq(m, Keep)

\* mutant: the limit is enforced one entry too late
BrainrotsOverLimit_offByOne(m) ==
  IF Len(m) > MAX_BRAINROTS + 1
    THEN LET sorted == SortNewestFirst(m)
             toRemove == Len(m) - MAX_BRAINROTS - 1
         IN {sorted[i].key : i \in 1..toRemove}
    ELSE {}

\* second part of cleanupOldBrainrots: the keys deleted to enforce the limit
BrainrotsOverLimit(m) ==
  IF Len(m) > MAX_BRAINROTS
    THEN LET sorted == SortNewestFirst(m)
             toRemove == Len(m) - MAX_BRAINROTS
         IN {sorted[i].key : i \in 1..toRemove}
    ELSE {}

cleanupOldBrainrots(m, nowTime) ==
  LET live == ExpireBrainrots(m, nowTime)
  IN MapDeleteKeys(live, BrainrotsOverLimit(live))

\* player.lastSeen < cutoff
PlayerExpired(player, nowTime) == player.lastSeen < nowTime - PLAYER_TIMEOUT_MS

\* first loop of cleanupInactivePlayers: remove expired players
ExpirePlayers(m, nowTime) ==
  LET Keep(player) == ~PlayerExpired(player, nowTime) IN SelectSeq(m, Keep)

\* the size enforcement of cleanupInactivePlayers with the sort order of
\* cleanupOldBrainrots
PlayersOverLimit_newestFirst(m) ==
  IF Len(m) > MAX_PLAYERS
    THEN LET sorted == SortNewestFirst(m)
             toRemove == Len(m) - MAX_PLAYERS
         IN {sorted[i].key : i \in 1..toRemove}
    ELSE {}

\* the size enforcement of cleanupInactivePlayers deleting one entry more
PlayersOverLimit_oneMore(m) ==
  IF Len(m) > MAX_PLAYERS
    THEN LET sorted == SortOldestFirst(m)
             toRemove == Len(m) - MAX_PLAYERS + 1
         IN {sorted[i].key : i \in 1..toRemove}
    ELSE {}

\* second part of cleanupInactivePlayers: the keys deleted to enforce the limit
PlayersOverLimit(m) ==
  IF Len(m) > MAX_PLAYERS
    THEN LET sorted == SortOldestFirst(m)
             toRemove == Len(m) - MAX_PLAYERS
         IN {sorted[i].key : i \in 1..toRemove}
    ELSE {}

cleanupInactivePlayers(m, nowTime) ==
  LET live == ExpirePlayers(m, nowTime)
  IN MapDeleteKeys(live, PlayersOverLimit(live))

\* the entries a cleanupOldBrainrots of m deletes in its first loop and in
\* its size enforcement
BrainrotsRemoved(m, nowTime) ==
  [expired |-> Range(m) \ Range(ExpireBrainrots(m, nowTime)),
   overLimit |-> Range(ExpireBrainrots(m, nowTime))
                   \ Range(cleanupOldBrainrots(m, nowTime))]

\* the same for cleanupInactivePlayers
PlayersRemoved(m, nowTime) ==
  [expired |-> Range(m) \ Range(ExpirePlayers(m, nowTime)),
   overLimit |-> Range(ExpirePlayers(m, nowTime))
                   \ Range(cleanupInactivePlayers(m, nowTime))]

----------------------------------------------------------------------------
(* Requests                                                                *)

Sep == <<"_">>

\* `${serverId}_${name.toLowerCase()}_${jobId}`
BrainrotKey(serverId, name, jobId) ==
  serverId \o Sep \o toLowerCase(name) \o Sep \o jobId

\* `${username.toLowerCase()}_${serverId}_${jobId}`
PlayerKey(username, serverId, jobId) ==
  toLowerCase(username.v) \o Sep \o StringOf(serverId) \o Sep \o StringOf(jobId)

BrainrotBody(name, serverId, jobId, players, railway) ==
  [name |-> name, serverId |-> serverId, jobId |-> jobId,
   players |-> players, moneyPerSec |-> 10 * players, railway |-> railway]

\* bodies of POST /brainrots with three non-blank strings
ValidBrainrotBodies ==
  { BrainrotBody(Str(<<" ", "A">>), Str(<<"s">>), Str(<<"j">>), 1, FALSE),
    BrainrotBody(Str(<<"b">>), Str(<<"s", " ">>), Str(<<"j">>), 1, TRUE),
    BrainrotBody(Str(<<"c">>), Str(<<"s">>), Str(<<"j">>), 1, FALSE) }

\* bodies of POST /brainrots with a blank or missing component
BlankBrainrotBodies ==
  { BrainrotBody(Str(<<" ">>), Str(<<"s">>), Str(<<"j">>), 1, FALSE) }

BrainrotBodies == ValidBrainrotBodies \cup BlankBrainrotBodies

\* further bodies of POST /brainrots: a second report of the first identity,
\* an empty, a missing and a non-string component
MoreBrainrotBodies ==
  { BrainrotBody(Str(<<"a">>), Str(<<"s">>), Str(<<"j">>), 2, TRUE),
    BrainrotBody(Str(<<"a">>), Str(<< >>), Str(<<"j">>), 1, FALSE),
    BrainrotBody(Str(<<"a">>), Str(<<"s">>), Undefined, 1, FALSE),
    BrainrotBody(Num(5), Str(<<"s">>), Str(<<"j">>), 1, FALSE) }

LeaveBody(name, serverId, jobId) ==
  [name |-> name, serverId |-> serverId, jobId |-> jobId]

\* bodies of PATCH /brainrots/leave
LeaveBodies ==
  { LeaveBody(Str(<<"A", " ">>), Str(<<"s">>), Str(<<"j">>)),
    LeaveBody(Str(<<"b">>), Str(<<"s">>), Str(<<"j">>)),
    LeaveBody(Undefined, Str(<<"s">>), Str(<<"j">>)) }

HeartbeatBody(username, serverId, jobId, placeId) ==
  [username |-> username, serverId |-> serverId, jobId |-> jobId,
   placeId |-> placeId]

\* bodies of POST /players/heartbeat with three non-blank strings
ValidHeartbeatBodies ==
  { HeartbeatBody(Str(<<"P">>), Str(<<"s">>), Str(<<"j">>), Undefined),
    HeartbeatBody(Str(<<"q">>), Str(<<"s">>), Str(<<"j">>), Str(<<"x">>)) }

\* bodies of POST /players/heartbeat with a blank or missing component
BlankHeartbeatBodies ==
  { HeartbeatBody(Str(<<" ">>), Str(<<"s">>), Str(<<"j">>), Undefined),
    HeartbeatBody(Str(<<"p">>), Str(<<"s">>), Undefined, Undefined) }

HeartbeatBodies == ValidHeartbeatBodies \cup BlankHeartbeatBodies

\* further bodies of POST /players/heartbeat: a second report of the first
\* identity, one more identity, an empty and a non-string component
MoreHeartbeatBodies ==
  { HeartbeatBody(Str(<<"p">>), Str(<<"s">>), Str(<<"j">>), Str(<<"x">>)),
    HeartbeatBody(Str(<<"b">>), Str(<<"s">>), Str(<<"j">>), Undefined),
    HeartbeatBody(Str(<< >>), Str(<<"s">>), Str(<<"j">>), Undefined),
    HeartbeatBody(Num(5), Str(<<"s">>), Str(<<"j">>), Undefined) }

NoBody == [none |-> TRUE]

\* nothing deleted by a cleanup
NoneRemoved == [brainrots |-> {}, players |-> {}]

Response(op, req, status, body) ==
  [op |-> op, req |-> req, status |-> status, body |-> body]

----------------------------------------------------------------------------
(* State                                                                   *)

Init ==
  /\ brainrots = << >>
  /\ activePlayers = << >>
  /\ now = 0
  /\ nextTick = SWEEP_INTERVAL_MS
  /\ res = Response("listen", NoBody, 0, NoBody)
  /\ swept = NoneRemoved
  /\ evicted = NoneRemoved

----------------------------------------------------------------------------
(* Handlers                                                                *)

\* the entry POST /brainrots stores for a body that passed the check
BrainrotEntry(data, nowTime) ==
  LET name == TrimmedOrEmpty(data.name)
      serverId == TrimmedOrEmpty(data.serverId)
      jobId == TrimmedOrEmpty(data.jobId)
  IN [key |-> BrainrotKey(serverId, name, jobId),
      name |-> name,
      serverId |-> serverId,
      jobId |-> jobId,
      players |-> data.players,
      moneyPerSec |-> data.moneyPerSec,
      lastSeen |-> nowTime,
      active |-> TRUE,
      source |-> IF data.railway THEN "bot" ELSE "lua"]

\* !name || !serverId || !jobId, on the trimmed strings
BrainrotBodyRejected(data) ==
  \/ TrimmedOrEmpty(data.name) = << >>
  \/ TrimmedOrEmpty(data.serverId) = << >>
  \/ TrimmedOrEmpty(data.jobId) = << >>

\* app.post('/brainrots')
PostBrainrots(data) ==
  IF BrainrotBodyRejected(data)
    THEN /\ res' = Response("POST /brainrots", data, 400, [error |-> "Missing"])
         /\ swept' = NoneRemoved
         /\ evicted' = NoneRemoved
         /\ UNCHANGED <<brainrots, activePlayers, now, nextTick>>
    ELSE LET stored == MapSet(brainrots, BrainrotEntry(data, now))
             removed == BrainrotsRemoved(stored, now)
         IN /\ brainrots' = cleanupOldBrainrots(stored, now)
            /\ res' = Response("POST /brainrots", data, 200, [success |-> TRUE])
            /\ swept' = [NoneRemoved EXCEPT !.brainrots = removed.expired]
            /\ evicted' = [NoneRemoved EXCEPT !.brainrots = removed.overLimit]
            /\ UNCHANGED <<activePlayers, now, nextTick>>

\* the object GET /brainrots pushes for a stored brainrot
BrainrotView(br) ==
  [name |-> br.name, serverId |-> br.serverId, jobId |-> br.jobId,
   players |-> br.players, moneyPerSec |-> br.moneyPerSec,
   lastSeen |-> br.lastSeen, source |-> br.source]

\* br.lastSeen >= cutoff
BrainrotActive(br, nowTime) == br.lastSeen >= nowTime - BRAINROT_LIVETIME_MS

\* mutant: the active brainrots are sorted oldest first
limitedBrainrots_oldestFirst(m, nowTime) ==
  LET Active(br) == BrainrotActive(br, nowTime)
      live == SelectSeq(m, Active)
      activeBrainrots == [i \in 1..Len(live) |-> BrainrotView(live[i])]
  IN Slice0(SortOldestFirst(activeBrainrots), MAX_RESPONSE_BRAINROTS)

\* the array GET /brainrots answers from the map it finds after its cleanup
limitedBrainrots(m, nowTime) ==
  LET Active(br) == BrainrotActive(br, nowTime)
      live == SelectSeq(m, Active)
      activeBrainrots == [i \in 1..Len(live) |-> BrainrotView(live[i])]
  IN Slice0(SortNewestFirst(activeBrainrots), MAX_RESPONSE_BRAINROTS)

\* mutant: listing the brainrots refreshes the lastSeen of those that stay
GetBrainrots_touch ==
  LET removed == BrainrotsRemoved(brainrots, now)
      cleaned == cleanupOldBrainrots(brainrots, now)
  IN /\ brainrots' = [i \in 1..Len(cleaned) |-> [cleaned[i] EXCEPT !.lastSeen = now]]
     /\ res' = Response("GET /brainrots", NoBody, 200, limitedBrainrots(cleaned, now))
     /\ swept' = [NoneRemoved EXCEPT !.brainrots = removed.expired]
     /\ evicted' = [NoneRemoved EXCEPT !.brainrots = removed.overLimit]
     /\ UNCHANGED <<activePlayers, now, nextTick>>

\* app.get('/brainrots')
GetBrainrots ==
  LET removed == BrainrotsRemoved(brainrots, now)
      cleaned == cleanupOldBrainrots(brainrots, now)
  IN /\ brainrots' = cleaned
     /\ res' = Response("GET /brainrots", NoBody, 200, limitedBrainrots(cleaned, now))
     /\ swept' = [NoneRemoved EXCEPT !.brainrots = removed.expired]
     /\ evicted' = [NoneRemoved EXCEPT !.brainrots = removed.overLimit]
     /\ UNCHANGED <<activePlayers, now, nextTick>>

\* Math.floor(process.uptime()), the process having started at time 0
Uptime(nowTime) == nowTime \div 1000

\* id.substring(0, 8) + '...'
Abbreviated(id) ==
  SubSeq(id, 1, IF Len(id) < DEBUG_ID_CHARS THEN Len(id) ELSE DEBUG_ID_CHARS)
    \o <<".", ".", ".">>

\* the object GET /brainrots/debug pushes for an active brainrot
BrainrotDebugView(br, nowTime) ==
  [name |-> br.name,
   serverId |-> Abbreviated(br.serverId),
   jobId |-> Abbreviated(br.jobId),
   players |-> br.players,
   moneyPerSec |-> br.moneyPerSec,
   secondsSinceLastSeen |-> (nowTime - br.lastSeen) \div 1000]

\* debugData of GET /brainrots/debug, from the map it finds after its cleanup
debugData(m, nowTime) ==
  LET Active(br) == BrainrotActive(br, nowTime)
      active == SelectSeq(m, Active)
      listed == Slice0(active, MAX_DEBUG_ACTIVE)
  IN [summary |-> [totalStored |-> Len(m),
                   activeCount |-> Len(active),
                   expiredCount |-> Len(m) - Len(active),
                   limits |-> [maxBrainrots |-> MAX_BRAINROTS,
                               maxPlayers |-> MAX_PLAYERS]],
      active |-> [i \in 1..Len(listed) |-> BrainrotDebugView(listed[i], nowTime)]]

\* app.get('/brainrots/debug')
GetBrainrotsDebug ==
  LET removed == BrainrotsRemoved(brainrots, now)
      cleaned == cleanupOldBrainrots(brainrots, now)
  IN /\ brainrots' = cleaned
     /\ res' = Response("GET /brainrots/debug", NoBody, 200, debugData(cleaned, now))
     /\ swept' = [NoneRemoved EXCEPT !.brainrots = removed.expired]
     /\ evicted' = [NoneRemoved EXCEPT !.brainrots = removed.overLimit]
     /\ UNCHANGED <<activePlayers, now, nextTick>>

\* mutant: every active brainrot is counted as lua, whatever its source
statsData_allLua(m, players, nowTime) ==
  LET Active(br) == BrainrotActive(br, nowTime)
      active == SelectSeq(m, Active)
      Bot(br) == br.source = "bot"
  IN [totalActive |-> Len(active),
      totalPlayers |-> Len(players),
      bySource |-> [lua |-> Len(active),
                    bot |-> Len(SelectSeq(active, Bot))],
      uptime |-> Uptime(nowTime),
      limits |-> [brainrots |-> <<Len(m), MAX_BRAINROTS>>,
                  players |-> <<Len(players), MAX_PLAYERS>>]]

\* the object GET /brainrots/stats answers
statsData(m, players, nowTime) ==
  LET Active(br) == BrainrotActive(br, nowTime)
      active == SelectSeq(m, Active)
      Lua(br) == br.source = "lua"
      Bot(br) == br.source # "lua" /\ br.source = "bot"
  IN [totalActive |-> Len(active),
      totalPlayers |-> Len(players),
      bySource |-> [lua |-> Len(SelectSeq(active, Lua)),
                    bot |-> Len(SelectSeq(active, Bot))],
      uptime |-> Uptime(nowTime),
      limits |-> [brainrots |-> <<Len(m), MAX_BRAINROTS>>,
                  players |-> <<Len(players), MAX_PLAYERS>>]]

\* app.get('/brainrots/stats')
GetBrainrotsStats ==
  /\ res' = Response("GET /brainrots/stats", NoBody, 200,
                     statsData(brainrots, activePlayers, now))
  /\ swept' = NoneRemoved
  /\ evicted' = NoneRemoved
  /\ UNCHANGED <<brainrots, activePlayers, now, nextTick>>

\* the figures in the page GET / answers
healthData(m, players, nowTime) ==
  LET Active(br) == BrainrotActive(br, nowTime)
  IN [activeBrainrots |-> <<Len(SelectSeq(m, Active)), MAX_BRAINROTS>>,
      activePlayers |-> <<Len(players), MAX_PLAYERS>>,
      uptime |-> Uptime(nowTime)]

\* app.get('/')
GetRoot ==
  /\ res' = Response("GET /", NoBody, 200,
                     healthData(brainrots, activePlayers, now))
  /\ swept' = NoneRemoved
  /\ evicted' = NoneRemoved
  /\ UNCHANGED <<brainrots, activePlayers, now, nextTick>>

\* mutant: the count is read after the map is cleared
DeleteBrainrots_countAfterClear ==
  /\ brainrots' = << >>
  /\ res' = Response("DELETE /brainrots", NoBody, 200,
                     [success |-> TRUE, cleared |-> 0])
  /\ swept' = NoneRemoved
  /\ evicted' = NoneRemoved
  /\ UNCHANGED <<activePlayers, now, nextTick>>

\* app.delete('/brainrots')
DeleteBrainrots ==
  LET count == Len(brainrots)
  IN /\ brainrots' = << >>
     /\ res' = Response("DELETE /brainrots", NoBody, 200,
                        [success |-> TRUE, cleared |-> count])
     /\ swept' = NoneRemoved
     /\ evicted' = NoneRemoved
     /\ UNCHANGED <<activePlayers, now, nextTick>>

\* the key PATCH /brainrots/leave deletes
LeaveKey(body) ==
  BrainrotKey(TrimmedOrEmpty(body.serverId), TrimmedOrEmpty(body.name),
              TrimmedOrEmpty(body.jobId))

\* the success field of the answer of PATCH /brainrots/leave
LeaveSuccess(m, key) == TRUE

\* app.patch('/brainrots/leave')
PatchBrainrotsLeave(body) ==
  LET key == LeaveKey(body)
  IN /\ brainrots' = MapDelete(brainrots, key)
     /\ res' = Response("PATCH /brainrots/leave", body, 200,
                        [success |-> LeaveSuccess(brainrots, key)])
     /\ swept' = NoneRemoved
     /\ evicted' = NoneRemoved
     /\ UNCHANGED <<activePlayers, now, nextTick>>

\* !username || !serverId || !jobId
HeartbeatRejected(body) ==
  \/ ~Truthy(body.username)
  \/ ~Truthy(body.serverId)
  \/ ~Truthy(body.jobId)

\* username.toLowerCase() throws a TypeError unless username is a string
HeartbeatThrows(body) == body.username.t # "string"

\* the entry POST /players/heartbeat stores
PlayerEntry(body, nowTime) ==
  [key |-> PlayerKey(body.username, body.serverId, body.jobId),
   username |-> body.username,
   serverId |-> body.serverId,
   jobId |-> body.jobId,
   placeId |-> IF Truthy(body.placeId) THEN body.placeId ELSE body.serverId,
   lastSeen |-> nowTime]

\* app.post('/players/heartbeat') running both cleanups, as the timer does
PostPlayersHeartbeat_bothCleanups(body) ==
  IF HeartbeatRejected(body) \/ HeartbeatThrows(body)
    THEN /\ res' = IF HeartbeatRejected(body)
                     THEN Response("POST /players/heartbeat", body, 400,
                                   [error |-> "Missing"])
                     ELSE Response("POST /players/heartbeat", body, 500,
                                   [error |-> "TypeError"])
         /\ swept' = NoneRemoved
         /\ evicted' = NoneRemoved
         /\ UNCHANGED <<brainrots, activePlayers, now, nextTick>>
    ELSE LET stored == MapSet(activePlayers, PlayerEntry(body, now))
             removed == PlayersRemoved(stored, now)
         IN /\ activePlayers' = cleanupInactivePlayers(stored, now)
            /\ res' = Response("POST /players/heartbeat", body, 200,
                               [success |-> TRUE])
            /\ swept' = [NoneRemoved EXCEPT !.players = removed.expired]
            /\ evicted' = [NoneRemoved EXCEPT !.players = removed.overLimit]
            /\ brainrots' = cleanupOldBrainrots(brainrots, now)
            /\ UNCHANGED <<now, nextTick>>

\* app.post('/players/heartbeat')
PostPlayersHeartbeat(body) ==
  IF HeartbeatRejected(body) \/ HeartbeatThrows(body)
    THEN /\ res' = IF HeartbeatRejected(body)
                     THEN Response("POST /players/heartbeat", body, 400,
                                   [error |-> "Missing"])
                     ELSE Response("POST /players/heartbeat", body, 500,
                                   [error |-> "TypeError"])
         /\ swept' = NoneRemoved
         /\ evicted' = NoneRemoved
         /\ UNCHANGED <<brainrots, activePlayers, now, nextTick>>
    ELSE LET stored == MapSet(activePlayers, PlayerEntry(body, now))
             removed == PlayersRemoved(stored, now)
         IN /\ activePlayers' = cleanupInactivePlayers(stored, now)
            /\ res' = Response("POST /players/heartbeat", body, 200,
                               [success |-> TRUE])
            /\ swept' = [NoneRemoved EXCEPT !.players = removed.expired]
            /\ evicted' = [NoneRemoved EXCEPT !.players = removed.overLimit]
            /\ UNCHANGED <<brainrots, now, nextTick>>

\* the object GET /players/active answers for a stored player
PlayerView(player, nowTime) ==
  [username |-> player.username, serverId |-> player.serverId,
   jobId |-> player.jobId, placeId |-> player.placeId,
   secondsSinceLastSeen |-> (nowTime - player.lastSeen) \div 1000]

\* the array GET /players/active answers from the map it finds after its cleanup
limitedPlayers(m, nowTime) ==
  LET limited == Slice0(m, MAX_RESPONSE_PLAYERS)
  IN [i \in 1..Len(limited) |-> PlayerView(limited[i], nowTime)]

\* app.get('/players/active')
GetPlayersActive ==
  LET removed == PlayersRemoved(activePlayers, now)
      cleaned == cleanupInactivePlayers(activePlayers, now)
  IN /\ activePlayers' = cleaned
     /\ res' = Response("GET /players/active", NoBody, 200,
                        limitedPlayers(cleaned, now))
     /\ swept' = [NoneRemoved EXCEPT !.players = removed.expired]
     /\ evicted' = [NoneRemoved EXCEPT !.players = removed.overLimit]
     /\ UNCHANGED <<brainrots, now, nextTick>>

----------------------------------------------------------------------------
(* The sweep timer and the clock                                           *)

\* mutant: the timer callback cleans the players only
Tick_playersOnly ==
  /\ now >= nextTick
  /\ activePlayers' = cleanupInactivePlayers(activePlayers, now)
  /\ nextTick' = now + SWEEP_INTERVAL_MS
  /\ res' = Response("tick", NoBody, 0, NoBody)
  /\ swept' = [brainrots |-> {},
               players |-> PlayersRemoved(activePlayers, now).expired]
  /\ evicted' = [brainrots |-> {},
                 players |-> PlayersRemoved(activePlayers, now).overLimit]
  /\ UNCHANGED <<brainrots, now>>

\* the callback of setInterval(..., 2000); it runs no earlier than it is due
Tick ==
  /\ now >= nextTick
  /\ brainrots' = cleanupOldBrainrots(brainrots, now)
  /\ activePlayers' = cleanupInactivePlayers(activePlayers, now)
  /\ nextTick' = now + SWEEP_INTERVAL_MS
  /\ res' = Response("tick", NoBody, 0, NoBody)
  /\ swept' = [brainrots |-> BrainrotsRemoved(brainrots, now).expired,
               players |-> PlayersRemoved(activePlayers, now).expired]
  /\ evicted' = [brainrots |-> BrainrotsRemoved(brainrots, now).overLimit,
                 players |-> PlayersRemoved(activePlayers, now).overLimit]
  /\ UNCHANGED now

\* Date.now() moves on by d ms while nothing runs
Advance(d) ==
  /\ now + d <= MaxTime
  /\ now' = now + d
  /\ res' = Response("idle", NoBody, 0, NoBody)
  /\ swept' = NoneRemoved
  /\ evicted' = NoneRemoved
  /\ UNCHANGED <<brainrots, activePlayers, nextTick>>

\* the same when the timer callback is never late: the clock does not pass
\* the time the callback is due before it has run
PunctualAdvance(d) ==
  /\ now + d <= nextTick
  /\ now + d <= MaxSweepTime
  /\ Advance(d)

\* the clock steps of Spec
Steps == {BRAINROT_LIVETIME_MS}

\* the clock steps of BrainrotSpec
BrainrotSteps == {BRAINROT_LIVETIME_MS \div 3}

\* the clock steps of SweepSpec
SweepSteps == {SWEEP_INTERVAL_MS}

\* the bodies of POST /brainrots in SweepSpec
SweepBodies ==
  { BrainrotBody(Str(<<"a">>), Str(<<"s">>), Str(<<"j">>), 1, FALSE),
    BrainrotBody(Str(<<"b">>), Str(<<"s">>), Str(<<"j">>), 1, FALSE),
    BrainrotBody(Str(<<"c">>), Str(<<"s">>), Str(<<"j">>), 1, FALSE) }

\* bodies of POST /brainrots whose components contain the separator of the
\* key, next to two that differ in the case of the name only
KeyBrainrotBodies ==
  { BrainrotBody(Str(<<"A">>), Str(<<"s">>), Str(<<"j">>), 1, FALSE),
    BrainrotBody(Str(<<"a">>), Str(<<"s">>), Str(<<"j">>), 2, FALSE),
    BrainrotBody(Str(<<"b">>), Str(<<"s", "_", "a">>), Str(<<"j">>), 1, FALSE),
    BrainrotBody(Str(<<"a", "_", "b">>), Str(<<"s">>), Str(<<"j">>), 1, FALSE) }

\* bodies of POST /players/heartbeat of the same kinds
KeyHeartbeatBodies ==
  { HeartbeatBody(Str(<<"P">>), Str(<<"s">>), Str(<<"j">>), Undefined),
    HeartbeatBody(Str(<<"p">>), Str(<<"s">>), Str(<<"j">>), Undefined),
    HeartbeatBody(Str(<<"p", "_", "a">>), Str(<<"s">>), Str(<<"j">>), Undefined),
    HeartbeatBody(Str(<<"p">>), Str(<<"a", "_", "s">>), Str(<<"j">>), Undefined) }

----------------------------------------------------------------------------
(* Specifications                                                          *)

\* every handler, the timer callback running at or after its due time
Next ==
  \/ \E data \in BrainrotBodies : PostBrainrots(data)
  \/ GetBrainrots
  \/ DeleteBrainrots
  \/ \E body \in LeaveBodies : PatchBrainrotsLeave(body)
  \/ \E body \in HeartbeatBodies : PostPlayersHeartbeat(body)
  \/ GetPlayersActive
  \/ GetBrainrotsDebug
  \/ GetBrainrotsStats
  \/ GetRoot
  \/ Tick
  \/ \E d \in Steps : Advance(d)

Spec == Init /\ [][Next]_vars

\* the handlers of the brainrots map alone, with more bodies
BrainrotNext ==
  \/ \E data \in BrainrotBodies \cup MoreBrainrotBodies : PostBrainrots(data)
  \/ GetBrainrots
  \/ DeleteBrainrots
  \/ \E body \in LeaveBodies : PatchBrainrotsLeave(body)
  \/ Tick
  \/ \E d \in BrainrotSteps : Advance(d)

BrainrotSpec == Init /\ [][BrainrotNext]_vars

\* the handlers of the activePlayers map alone, with more bodies
PlayerNext ==
  \/ \E body \in HeartbeatBodies \cup MoreHeartbeatBodies : PostPlayersHeartbeat(body)
  \/ GetPlayersActive
  \/ Tick
  \/ \E d \in BrainrotSteps : Advance(d)

PlayerSpec == Init /\ [][PlayerNext]_vars

\* the two upserts with bodies whose components contain the separator
KeyNext ==
  \/ \E data \in KeyBrainrotBodies : PostBrainrots(data)
  \/ \E body \in KeyHeartbeatBodies : PostPlayersHeartbeat(body)
  \/ \E d \in Steps : Advance(d)

KeySpec == Init /\ [][KeyNext]_vars

\* the handlers of the brainrots map under a timer that is never late
SweepNext ==
  \/ \E data \in SweepBodies : PostBrainrots(data)
  \/ GetBrainrots
  \/ DeleteBrainrots
  \/ \E body \in LeaveBodies : PatchBrainrotsLeave(body)
  \/ Tick
  \/ \E d \in SweepSteps : PunctualAdvance(d)

SweepSpec == Init /\ [][SweepNext]_vars

\* requests still arrive
Busy == now <= QuietAfter

\* every handler until the requests stop, then only the timer, which is
\* never late, and the clock
QuietNext ==
  \/ Busy /\ \E data \in SweepBodies : PostBrainrots(data)
  \/ Busy /\ GetBrainrots
  \/ Busy /\ DeleteBrainrots
  \/ Busy /\ \E body \in LeaveBodies : PatchBrainrotsLeave(body)
  \/ Busy /\ \E body \in HeartbeatBodies : PostPlayersHeartbeat(body)
  \/ Busy /\ GetPlayersActive
  \/ Tick
  \/ \E d \in SweepSteps : PunctualAdvance(d)

\* setInterval keeps calling back and Date.now() keeps moving
QuietSpec ==
  /\ Init
  /\ [][QuietNext]_vars
  /\ WF_vars(Tick)
  /\ WF_vars(\E d \in SweepSteps : PunctualAdvance(d))

----------------------------------------------------------------------------
(* Properties                                                              *)

\* the lifetime the properties speak of: 30 seconds
TTL == 30000

Accepted(op) == res.op = op /\ res.status = 200

\* C1: between handler and timer executions neither map is over its limit:
\* brainrots.size <= MAX_BRAINROTS and activePlayers.size <= MAX_PLAYERS.
SizeWithinLimits ==
  /\ Len(brainrots) <= MAX_BRAINROTS
  /\ Len(activePlayers) <= MAX_PLAYERS

\* an upsert into a full brainrots map has just had the limit enforced, while
\* the players map is full too
SizeWithinLimits_witness ==
  /\ Accepted("POST /brainrots")
  /\ evicted.brainrots # {}
  /\ Len(brainrots) = MAX_BRAINROTS
  /\ Len(activePlayers) = MAX_PLAYERS

\* C2: whenever the size enforcement of the brainrots map removes entries,
\* every removed entry has lastSeen <= the lastSeen of every entry kept.
EvictsLeastRecentBrainrots ==
  \A gone \in evicted.brainrots : \A kept \in Range(brainrots) :
    gone.lastSeen <= kept.lastSeen

\* C3: right after an accepted POST /brainrots or POST /players/heartbeat the
\* map holds, under the identity of the request, the entry just written:
\* its payload, and lastSeen = the time of the request.
UpsertIsReadBack ==
  /\ Accepted("POST /brainrots") =>
       LET written == BrainrotEntry(res.req, now)
       IN /\ MapHas(brainrots, written.key)
          /\ MapGet(brainrots, written.key) = written
  /\ Accepted("POST /players/heartbeat") =>
       LET written == PlayerEntry(res.req, now)
       IN /\ MapHas(activePlayers, written.key)
          /\ MapGet(activePlayers, written.key) = written

\* C4: with the timer firing every 2000 ms, a brainrot last upserted at t is
\* in the map at no time later than t + TTL + 2000, and the expiry loop
\* removes it at no time earlier than t + TTL.
SweptWithinOneInterval ==
  /\ \A br \in Range(brainrots) : now <= br.lastSeen + TTL + SWEEP_INTERVAL_MS
  /\ \A br \in swept.brainrots : now >= br.lastSeen + TTL

\* the timer callback has removed a brainrot at the last moment allowed
SweptWithinOneInterval_witness ==
  /\ res.op = "tick"
  /\ \E br \in swept.brainrots : now = br.lastSeen + TTL + SWEEP_INTERVAL_MS

\* C5: the expiry loop, in the timer callback or inside a request, never
\* removes a brainrot for which now < lastSeen + TTL, and an accepted upsert of
\* an identity already in the map leaves it there with lastSeen = the time
\* of the upsert (the deadline starts anew).
RefreshResetsDeadline ==
  [][ /\ \A br \in swept'.brainrots : ~(now' < br.lastSeen + TTL)
      /\ ( /\ res'.op = "POST /brainrots"
           /\ res'.status = 200
           /\ MapHas(brainrots, BrainrotEntry(res'.req, now').key) )
         => LET key == BrainrotEntry(res'.req, now').key
            IN /\ MapHas(brainrots', key)
               /\ MapGet(brainrots', key).lastSeen = now' ]_vars

\* a GET /brainrots whose cleanup removed an expired brainrot lists one that
\* was written earlier and whose deadline has not come
RefreshResetsDeadline_witness ==
  /\ Accepted("GET /brainrots")
  /\ swept.brainrots # {}
  /\ \E i \in 1..Len(res.body) :
       /\ res.body[i].lastSeen < now
       /\ now < res.body[i].lastSeen + TTL

Min(a, b) == IF a < b THEN a ELSE b

ListedOnlyBeforeDeadline ==
  /\ Accepted("GET /brainrots") =>
       \A i \in 1..Len(res.body) : now < res.body[i].lastSeen + TTL
  /\ Accepted("GET /players/active") =>
       \A i \in 1..Len(res.body) : \E player \in Range(activePlayers) :
         /\ res.body[i] = PlayerView(player, now)
         /\ now < player.lastSeen + TTL

\* C7, amended: every entry a list-live endpoint answers at time now
\* satisfies now <= lastSeen + TTL: it is still listed at exactly
\* now = lastSeen + TTL and left out at every later time.
ListedOnlyUntilDeadline ==
  /\ Accepted("GET /brainrots") =>
       \A i \in 1..Len(res.body) : now <= res.body[i].lastSeen + TTL
  /\ Accepted("GET /players/active") =>
       \A i \in 1..Len(res.body) : \E player \in Range(activePlayers) :
         /\ res.body[i] = PlayerView(player, now)
         /\ now <= player.lastSeen + TTL

\* a GET /brainrots lists a brainrot at exactly now = lastSeen + TTL
ListedOnlyUntilDeadline_witness ==
  /\ Accepted("GET /brainrots")
  /\ \E i \in 1..Len(res.body) : now = res.body[i].lastSeen + TTL

\* C8: PATCH /brainrots/leave answers true when the identity was in the map,
\* and has removed it, and false when it was not, leaving the map unchanged.
LeaveReportsPresence ==
  [][ res'.op = "PATCH /brainrots/leave" =>
        LET key == LeaveKey(res'.req)
        IN /\ res'.body.success = MapHas(brainrots, key)
           /\ ~MapHas(brainrots', key)
           /\ ~MapHas(brainrots, key) => brainrots' = brainrots ]_vars

\* a component that is missing or empty after trimming
BlankComponent(x) ==
  \/ x.t = "undefined"
  \/ x.t = "string" /\ trim(x.v) = << >>

\* C9: a POST /brainrots or POST /players/heartbeat with a name (username),
\* serverId or jobId that is missing or empty after trimming is answered with
\* the validation error and leaves both maps as they were.
BlankIdentityRejected ==
  [][ ( \/ /\ res'.op = "POST /brainrots"
           /\ \/ BlankComponent(res'.req.name)
              \/ BlankComponent(res'.req.serverId)
              \/ BlankComponent(res'.req.jobId)
        \/ /\ res'.op = "POST /players/heartbeat"
           /\ \/ BlankComponent(res'.req.username)
              \/ BlankComponent(res'.req.serverId)
              \/ BlankComponent(res'.req.jobId) )
      => /\ res'.status = 400
         /\ brainrots' = brainrots
         /\ activePlayers' = activePlayers ]_vars

\* C10: DELETE /brainrots answers as cleared the number of entries the map
\* held before the call, expired ones included, and leaves the map empty.
ClearCountsAll ==
  [][ res'.op = "DELETE /brainrots" =>
        /\ res'.body.cleared = Len(brainrots)
        /\ Len(brainrots') = 0 ]_vars

\* a DELETE /brainrots has cleared a full map
ClearCountsAll_witness ==
  /\ Accepted("DELETE /brainrots")
  /\ res.body.cleared = MAX_BRAINROTS
  /\ brainrots = << >>

\* C11: once no request arrives any more and the timer keeps firing while
\* the clock moves on, every entry is removed: both maps become empty and
\* stay empty.
QuietMapsDrain == <>[](brainrots = << >> /\ activePlayers = << >>)

\* the timer callback, with no request in between, has removed the last
\* brainrots and the last players
QuietMapsDrain_witness ==
  /\ res.op = "tick"
  /\ now > QuietAfter
  /\ swept.brainrots # {}
  /\ swept.players # {}
  /\ brainrots = << >>
  /\ activePlayers = << >>

ReadOps ==
  {"GET /brainrots", "GET /players/active", "GET /brainrots/debug",
   "GET /brainrots/stats", "GET /"}

\* C12: a read (GET /brainrots, /players/active, /brainrots/debug,
\* /brainrots/stats, /) adds no entry and changes no lastSeen and no payload:
\* every entry of either map after the read was there, the same, before it.
ReadsOnlyRemove ==
  [][ res'.op \in ReadOps =>
        /\ Range(brainrots') \subseteq Range(brainrots)
        /\ Range(activePlayers') \subseteq Range(activePlayers) ]_vars

\* a read has removed an expired brainrot and left another, written before
\* the read, in the map
ReadsOnlyRemove_witness ==
  /\ res.op \in ReadOps
  /\ swept.brainrots # {}
  /\ \E br \in Range(brainrots) : br.lastSeen < now

\* C13: GET /players/active at time now answers exactly
\* min(MAX_RESPONSE_PLAYERS, k) of the k stored players with
\* lastSeen >= now - PLAYER_TIMEOUT_MS, those with the greatest lastSeen,
\* most recently seen first.
PlayersAnswerNewestLive ==
  Accepted("GET /players/active") =>
    LET live == {player \in Range(activePlayers) : player.lastSeen >= now - TTL}
        body == res.body
        returned == {player \in live :
                       \E i \in 1..Len(body) : body[i] = PlayerView(player, now)}
    IN /\ Len(body) = Min(MAX_RESPONSE_PLAYERS, Cardinality(live))
       /\ Cardinality(returned) = Len(body)
       /\ \A i \in 1..Len(body) : \E player \in live : body[i] = PlayerView(player, now)
       /\ \A i \in 1..(Len(body) - 1) :
            body[i].secondsSinceLastSeen <= body[i + 1].secondsSinceLastSeen
       /\ \A player \in live \ returned : \A r \in returned :
            player.lastSeen <= r.lastSeen

\* C14: when the size enforcement of the activePlayers map deletes entries,
\* every deleted player was seen no later than every player kept, and of
\* two players seen at the same time the one deleted comes first in the
\* iteration order of the map the enforcement ran on.
EvictsLeastRecentPlayers ==
  [][ evicted'.players # {} =>
        /\ res'.op = "POST /players/heartbeat"
        /\ LET stored == MapSet(activePlayers, PlayerEntry(res'.req, now'))
               Unswept(player) == player \notin swept'.players
               before == SelectSeq(stored, Unswept)
           IN \A i, j \in 1..Len(before) :
                (before[i] \in evicted'.players /\ before[j] \notin evicted'.players)
                  => \/ before[i].lastSeen < before[j].lastSeen
                     \/ before[i].lastSeen = before[j].lastSeen /\ i < j ]_vars

\* a player was evicted while a player seen at the same time was kept, and
\* another while a player seen later was kept
EvictsLeastRecentPlayers_witness ==
  /\ Accepted("POST /players/heartbeat")
  /\ evicted.players # {}
  /\ \E gone \in evicted.players : \E kept \in Range(activePlayers) :
       gone.lastSeen = kept.lastSeen /\ kept.lastSeen < now

\* C16: the size enforcement of either map deletes exactly
\* max(0, n - limit) of the n entries the expiry loop left: after an
\* enforcement that deleted something the map holds exactly limit entries,
\* and every entry a cleanup deleted from a map within its limit had expired.
EvictsOnlyTheExcess ==
  /\ Cardinality(evicted.brainrots) =
       IF Len(brainrots) + Cardinality(evicted.brainrots) > MAX_BRAINROTS
         THEN Len(brainrots) + Cardinality(evicted.brainrots) - MAX_BRAINROTS
         ELSE 0
  /\ Cardinality(evicted.players) =
       IF Len(activePlayers) + Cardinality(evicted.players) > MAX_PLAYERS
         THEN Len(activePlayers) + Cardinality(evicted.players) - MAX_PLAYERS
         ELSE 0
  /\ \A br \in swept.brainrots : br.lastSeen < now - TTL
  /\ \A player \in swept.players : player.lastSeen < now - TTL

\* a heartbeat overflowed the activePlayers map and left it exactly full
EvictsOnlyTheExcess_witness ==
  /\ Accepted("POST /players/heartbeat")
  /\ evicted.players # {}
  /\ Len(activePlayers) = MAX_PLAYERS

\* the identity of a stored brainrot and of a stored player
BrainrotIdentity(br) == <<br.serverId, toLowerCase(br.name), br.jobId>>

PlayerIdentity(player) ==
  <<toLowerCase(player.username.v), player.serverId, player.jobId>>

\* C15: an accepted POST /brainrots or POST /players/heartbeat addresses a
\* stored entry (has its key) if and only if the two have the same identity:
\* (serverId, lower-cased name, jobId) for a brainrot, (lower-cased username,
\* serverId, jobId) for a player; and no map holds two entries of one
\* identity.
KeyIsIdentity ==
  [][ /\ (res'.op = "POST /brainrots" /\ res'.status = 200) =>
           LET new == BrainrotEntry(res'.req, now')
           IN \A br \in Range(brainrots) :
                (br.key = new.key) <=> (BrainrotIdentity(br) = BrainrotIdentity(new))
      /\ (res'.op = "POST /players/heartbeat" /\ res'.status = 200) =>
           LET new == PlayerEntry(res'.req, now')
           IN \A player \in Range(activePlayers) :
                (player.key = new.key) <=> (PlayerIdentity(player) = PlayerIdentity(new))
      /\ \A i, j \in 1..Len(brainrots') :
           i # j => BrainrotIdentity(brainrots'[i]) # BrainrotIdentity(brainrots'[j])
      /\ \A i, j \in 1..Len(activePlayers') :
           i # j => PlayerIdentity(activePlayers'[i]) # PlayerIdentity(activePlayers'[j])
    ]_vars

EntityOps ==
  {"POST /brainrots", "GET /brainrots", "DELETE /brainrots", "PATCH /brainrots/leave"}

PlayerOps == {"POST /players/heartbeat", "GET /players/active"}

\* C17: POST /brainrots, GET /brainrots, DELETE /brainrots and
\* PATCH /brainrots/leave leave the activePlayers map as it was, and
\* POST /players/heartbeat and GET /players/active leave the brainrots map
\* as it was.
StoresIndependent ==
  [][ /\ res'.op \in EntityOps => activePlayers' = activePlayers
      /\ res'.op \in PlayerOps => brainrots' = brainrots ]_vars

\* a player operation has run its cleanup while the brainrots map held an
\* expired entry, which is still there
StoresIndependent_witness ==
  /\ res.op \in PlayerOps
  /\ res.status = 200
  /\ \E br \in Range(brainrots) : br.lastSeen < now - TTL

\* C18: in every state the figures GET /brainrots/stats would answer are
\* consistent: bySource.lua + bySource.bot = totalActive, totalActive is
\* the number of stored brainrots with lastSeen >= now - 30000, and
\* totalActive <= brainrots.size <= MAX_BRAINROTS; every stored brainrot
\* has source 'lua' or 'bot'.  An answer of the endpoint carries these
\* figures.
StatsConsistent ==
  LET stats == statsData(brainrots, activePlayers, now)
      live == {br \in Range(brainrots) : br.lastSeen >= now - TTL}
  IN /\ stats.bySource.lua + stats.bySource.bot = stats.totalActive
     /\ stats.totalActive = Cardinality(live)
     /\ stats.totalActive <= stats.limits.brainrots[1]
     /\ stats.limits.brainrots[1] = Len(brainrots)
     /\ stats.limits.brainrots[1] <= stats.limits.brainrots[2]
     /\ stats.limits.brainrots[2] = MAX_BRAINROTS
     /\ \A br \in Range(brainrots) : br.source \in {"lua", "bot"}
     /\ Accepted("GET /brainrots/stats") => res.body = stats

\* the endpoint answered while the map held a live brainrot of either source
StatsConsistent_witness ==
  /\ Accepted("GET /brainrots/stats")
  /\ res.body.bySource.lua = 1
  /\ res.body.bySource.bot = 1
  /\ res.body.totalActive = 2

====
